---- MODULE Spec2Model ----
(***************************************************************************)
(* Model of the defect classification engine of AI-defect-detector:        *)
(* SimpleMLDefectDetector (ml_defect_detector_simple.py).                  *)
(*                                                                         *)
(* Text is modelled by TLA+ strings, one character at a time (SubSeq, Len  *)
(* and \o on strings).  A Python value that may be None is a sequence of   *)
(* length 0 (None) or 1 (the value).  Confidences are exact fractions of   *)
(* One, so that 0.7, 0.85, 0.95, x * 1.2 and (a + b) / 2 are computed      *)
(* without rounding.                                                       *)
(***************************************************************************)
EXTENDS Integers, Sequences, FiniteSets, TLC

VARIABLES
    ml_available,      \* self.ml_available
    classifier,        \* self.classifier: "None" or "pipeline"
    oracle,            \* what the auxiliary classifier answers, per sentence asked so far
    text,              \* the argument of detect_defects: <<>> is None, <<s>> the string s
    pc,                \* where detect_defects is: "idle", "loop", "ml", "rule"
    sentences,         \* local: the units of the running call
    idx,               \* local: position of the for loop in sentences (1-based)
    ml_results,        \* local: <<>> is None, <<r>> the dict r
    rule_results,      \* local: list of rule matches of the current unit
    combined_results,  \* local: list of findings of the current unit
    defects,           \* local: the findings collected so far
    returns            \* the outcomes of the completed calls, oldest first

vars == <<ml_available, classifier, oracle, text, pc, sentences, idx,
          ml_results, rule_results, combined_results, defects, returns>>

-----------------------------------------------------------------------------
(* Fixed-point confidences *)

One == 3 * 1000                      \* the float 1.0
Pct(n) == (n * One) \div 100         \* the float n / 100

Min(a, b) == IF a <= b THEN a ELSE b

-----------------------------------------------------------------------------
(* Strings: str.lower, str.strip, substring test, regular expressions *)

UpperToLower ==
    [c \in {"A","B","C","D","E","F","G","H","I","J","K","L","M",
            "N","O","P","Q","R","S","T","U","V","W","X","Y","Z"} |->
        CASE c = "A" -> "a" [] c = "B" -> "b" [] c = "C" -> "c" [] c = "D" -> "d"
          [] c = "E" -> "e" [] c = "F" -> "f" [] c = "G" -> "g" [] c = "H" -> "h"
          [] c = "I" -> "i" [] c = "J" -> "j" [] c = "K" -> "k" [] c = "L" -> "l"
          [] c = "M" -> "m" [] c = "N" -> "n" [] c = "O" -> "o" [] c = "P" -> "p"
          [] c = "Q" -> "q" [] c = "R" -> "r" [] c = "S" -> "s" [] c = "T" -> "t"
          [] c = "U" -> "u" [] c = "V" -> "v" [] c = "W" -> "w" [] c = "X" -> "x"
          [] c = "Y" -> "y" [] c = "Z" -> "z"]

CharAt(s, i) == SubSeq(s, i, i)

LowerChar(c) == IF c \in DOMAIN UpperToLower THEN UpperToLower[c] ELSE c

\* s[i..j] lower-cased, by halves (i <= j)
RECURSIVE LowerRange(_, _, _)
LowerRange(s, i, j) ==
    IF i = j THEN LowerChar(CharAt(s, i))
    ELSE LET m == (i + j) \div 2
         IN  LowerRange(s, i, m) \o LowerRange(s, m + 1, j)

Lower(s) == IF s = "" THEN "" ELSE LowerRange(s, 1, Len(s))

Whitespace == {" ", "\n", "\t", "\r"}

RECURSIVE FirstInk(_, _)
FirstInk(s, i) ==
    IF i > Len(s) \/ CharAt(s, i) \notin Whitespace THEN i ELSE FirstInk(s, i + 1)

RECURSIVE LastInk(_, _)
LastInk(s, j) ==
    IF j < 1 \/ CharAt(s, j) \notin Whitespace THEN j ELSE LastInk(s, j - 1)

Strip(s) ==
    LET i == FirstInk(s, 1)
    IN  IF i > Len(s) THEN "" ELSE SubSeq(s, i, LastInk(s, Len(s)))

\* Python's `kw in s`
Contains(s, kw) ==
    \E i \in 1..(Len(s) - Len(kw) + 1) : SubSeq(s, i, i + Len(kw) - 1) = kw

\* A regular expression of the taxonomy is a sequence of atoms: a literal
\* string, a character class [..], or an optional character class [..]?
Lit(s) == <<[kind |-> "lit", s |-> s, cls |-> {}]>>
Cls(S) == <<[kind |-> "cls", s |-> "", cls |-> S]>>
Opt(S) == <<[kind |-> "opt", s |-> "", cls |-> S]>>

RECURSIVE MatchAt(_, _, _, _)
MatchAt(pat, k, s, i) ==
    IF k > Len(pat) THEN TRUE
    ELSE LET a == pat[k]
             n == Len(a.s)
             one == i <= Len(s) /\ CharAt(s, i) \in a.cls
                        /\ MatchAt(pat, k + 1, s, i + 1)
         IN  CASE a.kind = "lit" ->
                    /\ i + n - 1 <= Len(s)
                    /\ SubSeq(s, i, i + n - 1) = a.s
                    /\ MatchAt(pat, k + 1, s, i + n)
               [] a.kind = "cls" -> one
               [] a.kind = "opt" -> one \/ MatchAt(pat, k + 1, s, i)

\* re.search(pattern, s) is not None.  A pattern that begins with a literal
\* can only match where that literal occurs.
NonWord == {" ", "\n", "\t", ".", ",", ":", ";", "-", "!", "?"}

\* a search that takes whole words only (\b on both sides of the pattern)
ReSearch_WholeWord(pat, s) ==
    LET padded == " " \o s \o " "
        ext == pat \o Cls(NonWord)
    IN  \E i \in 2..Len(padded) :
            CharAt(padded, i - 1) \in NonWord /\ MatchAt(ext, 1, padded, i)

ReSearch(pat, s) ==
    IF pat[1].kind = "lit"
    THEN LET n == Len(pat[1].s)
         IN  \E i \in 1..(Len(s) - n + 1) :
                 SubSeq(s, i, i + n - 1) = pat[1].s /\ MatchAt(pat, 2, s, i + n)
    ELSE \E i \in 1..(Len(s) + 1) : MatchAt(pat, 1, s, i)

-----------------------------------------------------------------------------
(* The taxonomy: self.defect_patterns, in dict insertion order *)

defect_patterns == <<
    [type |-> "Cracks", patterns |-> <<
        Lit("crack") \o Opt({"s"}), Lit("fissure") \o Opt({"s"}),
        Lit("split") \o Opt({"s"}), Lit("fracture") \o Opt({"s"}),
        Lit("settlement") \o Cls({"-", " "}) \o Lit("crack"),
        Lit("hairline crack"), Lit("structural crack") >>],
    [type |-> "Damp", patterns |-> <<
        Lit("damp") \o Opt({"n","e","s"}), Lit("moist") \o Opt({"u","r","e"}),
        Lit("wet") \o Opt({"n","e","s"}), Lit("humid") \o Opt({"i","t","y"}),
        Lit("water damage"), Lit("condensation"), Lit("moisture buildup") >>],
    [type |-> "Corrosion", patterns |-> <<
        Lit("rust") \o Opt({"i","n","g"}),
        Lit("corros") \o Cls({"i","o","n","|","v","e"}),
        Lit("oxid") \o Cls({"a","t","i","o","n","|","z","e","d"}),
        Lit("corroded"), Lit("deterioration"), Lit("metal damage") >>],
    [type |-> "Mold", patterns |-> <<
        Lit("mold"), Lit("mould"), Lit("fungus"), Lit("mildew"), Lit("fungal"),
        Lit("spores"), Lit("black spots") >>],
    [type |-> "Structural", patterns |-> <<
        Lit("structural"), Lit("foundation"), Lit("beam") \o Opt({"s"}),
        Lit("support"), Lit("deflection"), Lit("settlement"),
        Lit("load") \o Cls({"-", " "}) \o Lit("bearing"),
        Lit("structural stress"), Lit("structural damage") >>],
    [type |-> "Electrical", patterns |-> <<
        Lit("electrical"), Lit("wiring"), Lit("circuit"),
        Lit("outlet") \o Opt({"s"}), Lit("panel"), Lit("GFCI"),
        Lit("electrical fault"), Lit("electrical safety"), Lit("power"),
        Lit("voltage"), Lit("electrical hazard") >>],
    [type |-> "Plumbing", patterns |-> <<
        Lit("plumbing"), Lit("pipe") \o Opt({"s"}),
        Lit("leak") \o Opt({"a","g","e"}), Lit("drain") \o Opt({"a","g","e"}),
        Lit("water pressure"), Lit("joint connection"), Lit("blockage"),
        Lit("water system"), Lit("drainage system") >>] >>

defect_categories ==
    <<"Cracks", "Damp", "Corrosion", "Mold", "Structural", "Electrical", "Plumbing">>

-----------------------------------------------------------------------------
(* _split_into_sentences *)

SentenceEnd == {".", "!", "?"}       \* the class [.!?] of the split pattern
SplitMinLen == 15                    \* len(s.strip()) > 15
LoopMinLen == 15                     \* len(sentence.strip()) < 15: continue
TextMinLen == 20                     \* len(text.strip()) < 20: return []

\* the k-th smallest element of a set of numbers
Kth(S, k) == CHOOSE x \in S : Cardinality({y \in S : y < x}) = k - 1

\* re.split(r'[.!?]+', s): the pieces between the runs of delimiters, the
\* empty pieces at both ends included
ReSplit(s) ==
    LET delims == {i \in 1..Len(s) : CharAt(s, i) \in SentenceEnd}
        run_starts == {i \in delims : i - 1 \notin delims}
        run_ends == {i \in delims : i + 1 \notin delims}
        runs == Cardinality(run_starts)
        from(k) == IF k = 1 THEN 1 ELSE Kth(run_ends, k - 1) + 1
        upto(k) == IF k = runs + 1 THEN Len(s) ELSE Kth(run_starts, k) - 1
    IN  [k \in 1..(runs + 1) |-> SubSeq(s, from(k), upto(k))]

\* the filter with no minimum length
KeepSentence_KeepAll(s) == Len(Strip(s)) > 0

KeepSentence(s) == Len(Strip(s)) > SplitMinLen

SplitIntoSentences(s) ==
    LET pieces == ReSplit(s)
        kept == SelectSeq(pieces, KeepSentence)
    IN  [k \in 1..Len(kept) |-> Strip(kept[k])]

-----------------------------------------------------------------------------
(* The inputs *)

MaxUnits == 2          \* a text is made of at most MaxUnits pieces
MaxCalls == 2          \* detect_defects is called at most MaxCalls times

Pieces ==
    { "The foundation shows visible cracks along the east wall.",
      "There is a critical structural crack in the foundation.",
      " Significant damp in the basement. ",
      "Urgent repair of rusting beams...",
      "All rooms were clean and tidy.",
      "Cracks in the wall.",
      "Mold seen?!",
      "123\n",
      "Page 4!",
      "  \n" }

RECURSIVE Join(_)
Join(ps) == IF ps = <<>> THEN "" ELSE Head(ps) \o Join(Tail(ps))

\* pieces that are only combined with each other: a pattern inside a longer
\* word with two boost phrases, the upper-case term of the taxonomy, a unit of
\* exactly 15 characters, and the largest boost
ProbePieces ==
    { "Safety hazard: cracked foundation.",
      "The GFCI device is missing.",
      "Rust on pipe 12.",
      "Electrical hazard at the panel." }

\* what extract_text_from_file of app_railway.py returns instead of text
UploadStems == {"report", "survey"}

NoSuchFile(filename) ==
    "Error extracting text: [Errno 2] No such file or directory: 'uploads/"
        \o filename \o "'"

ExtractionMessages ==
    {"Unsupported file type", "Error reading DOCX file"} \cup
    { NoSuchFile(stem \o ".txt") : stem \in UploadStems }

\* None, every concatenation of at most MaxUnits pieces ("" included), and
\* the messages of the extractor
Texts ==
    {<<>>} \cup
    { <<Join(ps)>> : ps \in UNION { [1..n -> Pieces] : n \in 0..MaxUnits } } \cup
    { <<Join(ps)>> : ps \in UNION { [1..n -> ProbePieces] : n \in 1..MaxUnits } } \cup
    { <<m>> : m \in ExtractionMessages }

Range(f) == {f[k] : k \in DOMAIN f}

\* every unit that segmentation yields from some input text
UnitSentences ==
    UNION { Range(SplitIntoSentences(t[1])) : t \in Texts \ {<<>>} }

Scores == {0, (13 * One) \div 24, (2 * One) \div 3, One}

ClassifierOutcomes ==
    {[label |-> "RAISE", score |-> 0]} \cup
    { [label |-> "NEGATIVE", score |-> sc] : sc \in Scores } \cup
    \* the score of a POSITIVE answer is never read (line 130)
    { [label |-> "POSITIVE", score |-> sc] : sc \in {(2 * One) \div 3, One} }

\* the auxiliary classifier is a function of the sentence: it answers a
\* sentence it was asked before as it answered then
OracleAllows(sentence, out) ==
    \A e \in oracle : e.sentence = sentence => e.out = out

-----------------------------------------------------------------------------
(* _calculate_rule_confidence *)

base_confidence == Pct(70)
rule_cap == Pct(90)

specificity_boosts == <<
    [pattern |-> Lit("structural crack"),  boost |-> Pct(20)],
    [pattern |-> Lit("water damage"),      boost |-> Pct(20)],
    [pattern |-> Lit("electrical hazard"), boost |-> Pct(25)],
    [pattern |-> Lit("foundation"),        boost |-> Pct(15)],
    [pattern |-> Lit("safety hazard"),     boost |-> Pct(20)] >>

\* the loop over specificity_boosts with its break: the first phrase found
RECURSIVE FirstBoost(_, _)
FirstBoost(sentence, k) ==
    IF k > Len(specificity_boosts) THEN 0
    ELSE IF ReSearch(specificity_boosts[k].pattern, sentence)
         THEN specificity_boosts[k].boost
         ELSE FirstBoost(sentence, k + 1)

\* the loop without its break: every phrase found adds its boost
RECURSIVE AllBoosts(_, _)
AllBoosts(sentence, k) ==
    IF k > Len(specificity_boosts) THEN 0
    ELSE (IF ReSearch(specificity_boosts[k].pattern, sentence)
          THEN specificity_boosts[k].boost ELSE 0) + AllBoosts(sentence, k + 1)

CalculateRuleConfidence_Accumulate(pattern, sentence) ==
    Min(rule_cap, base_confidence + AllBoosts(sentence, 1))

\* the specificity boosts left out
CalculateRuleConfidence_NoBoost(pattern, sentence) == base_confidence

CalculateRuleConfidence(pattern, sentence) ==
    Min(rule_cap, base_confidence + FirstBoost(sentence, 1))

-----------------------------------------------------------------------------
(* _rule_based_classify and _get_primary_defect_type *)

\* index of the first pattern of the list found in s, 0 when none is
RECURSIVE FirstHit(_, _, _)
FirstHit(patterns, s, p) ==
    IF p > Len(patterns) THEN 0
    ELSE IF ReSearch(patterns[p], s) THEN p
         ELSE FirstHit(patterns, s, p + 1)

\* the inner loop without its break: one match per pattern found
CategoryMatches_NoBreak(entry, sentence_lower) ==
    LET hits == SelectSeq([p \in 1..Len(entry.patterns) |-> p],
                          LAMBDA p : ReSearch(entry.patterns[p], sentence_lower))
    IN  [h \in 1..Len(hits) |->
            [type       |-> entry.type,
             confidence |-> CalculateRuleConfidence(entry.patterns[hits[h]], sentence_lower),
             method     |-> "rule_based"]]

\* the inner loop over one category's patterns, left by break at the first hit
CategoryMatches(entry, sentence_lower) ==
    LET p == FirstHit(entry.patterns, sentence_lower, 1)
    IN  IF p = 0 THEN <<>>
        ELSE <<[type       |-> entry.type,
                confidence |-> CalculateRuleConfidence(entry.patterns[p], sentence_lower),
                method     |-> "rule_based"]>>

\* `return results` where the code has `break`: the first category only
RECURSIVE RuleFrom_ReturnAtFirst(_, _)
RuleFrom_ReturnAtFirst(sentence_lower, k) ==
    IF k > Len(defect_patterns) THEN <<>>
    ELSE LET m == FirstHit(defect_patterns[k].patterns, sentence_lower, 1)
         IN  IF m # 0
             THEN <<[type       |-> defect_patterns[k].type,
                     confidence |-> Min(rule_cap, base_confidence + FirstBoost(sentence_lower, 1)),
                     method     |-> "rule_based"]>>
             ELSE RuleFrom_ReturnAtFirst(sentence_lower, k + 1)

RECURSIVE RuleFrom(_, _)
RuleFrom(sentence_lower, k) ==
    IF k > Len(defect_patterns) THEN <<>>
    ELSE CategoryMatches(defect_patterns[k], sentence_lower)
             \o RuleFrom(sentence_lower, k + 1)

RuleBasedClassify(sentence) == RuleFrom(Lower(sentence), 1)

\* _rule_based_classify tabulated over the units the input texts contain
RuleTable == [s \in UnitSentences |-> RuleBasedClassify(s)]

RECURSIVE PrimaryFrom(_, _)
PrimaryFrom(sentence_lower, k) ==
    IF k > Len(defect_patterns) THEN <<>>
    ELSE IF FirstHit(defect_patterns[k].patterns, sentence_lower, 1) # 0
         THEN <<defect_patterns[k].type>>
         ELSE PrimaryFrom(sentence_lower, k + 1)

\* the last matching category of the taxonomy instead of the first
GetPrimaryDefectType_Last(sentence) ==
    LET hits == {k \in 1..Len(defect_patterns) :
                    FirstHit(defect_patterns[k].patterns, Lower(sentence), 1) # 0}
    IN  IF hits = {} THEN <<>>
        ELSE <<defect_patterns[CHOOSE k \in hits : \A j \in hits : j <= k].type>>

\* <<>> is None
GetPrimaryDefectType(sentence) == PrimaryFrom(Lower(sentence), 1)

\* _get_primary_defect_type tabulated over the same units
PrimaryTable == [s \in UnitSentences |-> GetPrimaryDefectType(s)]

-----------------------------------------------------------------------------
(* _determine_severity *)

high_severity_keywords ==
    <<"immediate", "urgent", "critical", "dangerous", "hazard",
      "safety", "structural damage", "major", "severe">>

medium_severity_keywords ==
    <<"significant", "moderate", "attention", "monitor", "repair", "maintenance">>

AnyKeyword(keywords, s) == \E k \in 1..Len(keywords) : Contains(s, keywords[k])

\* the two keyword loops in the other order
DetermineSeverity_MediumFirst(sentence) ==
    LET sentence_lower == Lower(sentence)
    IN  IF AnyKeyword(medium_severity_keywords, sentence_lower) THEN "Medium"
        ELSE IF AnyKeyword(high_severity_keywords, sentence_lower) THEN "High"
        ELSE "Low"

DetermineSeverity(sentence) ==
    LET sentence_lower == Lower(sentence)
    IN  IF AnyKeyword(high_severity_keywords, sentence_lower) THEN "High"
        ELSE IF AnyKeyword(medium_severity_keywords, sentence_lower) THEN "Medium"
        ELSE "Low"

\* _determine_severity tabulated over the same units
SeverityTable == [s \in UnitSentences |-> DetermineSeverity(s)]

-----------------------------------------------------------------------------
(* _ml_classify_sentence *)

\* What self.classifier(sentence) does: it returns a label with a score, or
\* it raises (label "RAISE").
ml_cap == Pct(95)

MlConfidence(score) == Min(ml_cap, (score * 12) \div 10)

\* a classifier that proposes the general category when no rule names one
MlClassifySentence_Fallback(clf, out, sentence) ==
    IF clf = "None" THEN [raised |-> FALSE, value |-> <<>>]
    ELSE IF out.label = "RAISE"
         THEN [raised |-> FALSE, value |-> <<>>]
    ELSE IF out.label = "NEGATIVE"
         THEN LET rule_type == PrimaryTable[sentence]
              IN  [raised |-> FALSE,
                   value  |-> <<[type       |-> IF rule_type # <<>> THEN rule_type[1]
                                                ELSE "Structural",
                                 confidence |-> MlConfidence(out.score),
                                 method     |-> "ml_enhanced"]>>]
    ELSE [raised |-> FALSE, value |-> <<>>]

\* the same without the except clause: the classifier's exception escapes
MlClassifySentence_NoExcept(clf, out, sentence) ==
    IF clf = "None" THEN [raised |-> FALSE, value |-> <<>>]
    ELSE IF out.label = "RAISE"
         THEN [raised |-> TRUE, value |-> <<>>]
    ELSE IF out.label = "NEGATIVE"
         THEN LET rule_type == PrimaryTable[sentence]
              IN  IF rule_type # <<>>
                  THEN [raised |-> FALSE,
                        value  |-> <<[type       |-> rule_type[1],
                                      confidence |-> MlConfidence(out.score),
                                      method     |-> "ml_enhanced"]>>]
                  ELSE [raised |-> FALSE, value |-> <<>>]
    ELSE [raised |-> FALSE, value |-> <<>>]

\* [raised, value]: the call raises, or returns value (<<>> is None)
MlClassifySentence(clf, out, sentence) ==
    IF clf = "None" THEN [raised |-> FALSE, value |-> <<>>]
    ELSE IF out.label = "RAISE"
         THEN [raised |-> FALSE, value |-> <<>>]          \* except Exception: return None
    ELSE IF out.label = "NEGATIVE"
         THEN LET rule_type == PrimaryTable[sentence]
              IN  IF rule_type # <<>>
                  THEN [raised |-> FALSE,
                        value  |-> <<[type       |-> rule_type[1],
                                      confidence |-> MlConfidence(out.score),
                                      method     |-> "ml_enhanced"]>>]
                  ELSE [raised |-> FALSE, value |-> <<>>]
    ELSE [raised |-> FALSE, value |-> <<>>]

-----------------------------------------------------------------------------
(* _combine_results *)

hybrid_cap == Pct(95)
agreement_bonus == Pct(10)

\* a combination that never goes below the rule confidence
HybridConfidence_NeverLower(ml_confidence, rule_confidence) ==
    Min(hybrid_cap,
        IF ml_confidence < rule_confidence THEN rule_confidence + agreement_bonus
        ELSE (ml_confidence + rule_confidence) \div 2 + agreement_bonus)

\* the agreement bonus left out
HybridConfidence_NoBonus(ml_confidence, rule_confidence) ==
    Min(hybrid_cap, (ml_confidence + rule_confidence) \div 2)

\* the cap left out
HybridConfidence_NoCap(ml_confidence, rule_confidence) ==
    (ml_confidence + rule_confidence) \div 2 + agreement_bonus

HybridConfidence(ml_confidence, rule_confidence) ==
    Min(hybrid_cap, (ml_confidence + rule_confidence) \div 2 + agreement_bonus)

Finding(type, sentence, confidence, method) ==
    [type             |-> type,
     sentence         |-> sentence,
     confidence       |-> confidence,
     severity         |-> SeverityTable[sentence],
     detection_method |-> method]

CombineResults(ml, rules, sentence) ==
    IF ml # <<>> /\ rules # <<>>
    THEN [i \in 1..Len(rules) |->
            IF rules[i].type = ml[1].type
            THEN Finding(rules[i].type, sentence,
                         HybridConfidence(ml[1].confidence, rules[i].confidence),
                         "hybrid_ml_rule")
            ELSE Finding(rules[i].type, sentence, rules[i].confidence, "rule_based")]
    ELSE IF ml # <<>>
    THEN <<Finding(ml[1].type, sentence, ml[1].confidence, "ml_only")>>
    ELSE [i \in 1..Len(rules) |->
            Finding(rules[i].type, sentence, rules[i].confidence, "rule_based")]

-----------------------------------------------------------------------------
(* SimpleMLDefectDetector.__init__ *)

\* libs: the import of torch/transformers succeeded (ML_AVAILABLE);
\* loads: pipeline(...) returned rather than raised
Constructed(libs, loads) ==
    [ml_available |-> libs /\ loads,
     classifier   |-> IF libs /\ loads THEN "pipeline" ELSE "None"]

Init ==
    /\ \E libs \in BOOLEAN, loads \in BOOLEAN :
          /\ ml_available = Constructed(libs, loads).ml_available
          /\ classifier = Constructed(libs, loads).classifier
    /\ oracle = {}
    /\ text \in Texts
    /\ pc = "idle"
    /\ sentences = <<>>
    /\ idx = 1
    /\ ml_results = <<>>
    /\ rule_results = <<>>
    /\ combined_results = <<>>
    /\ defects = <<>>
    /\ returns = <<>>

-----------------------------------------------------------------------------
(* detect_defects *)

\* the guard without `not text`: None.strip() raises AttributeError
DetectGuard_NoNoneCheck(t) ==
    IF t = <<>> THEN "raise"
    ELSE IF Len(Strip(t[1])) < TextMinLen THEN "return"
    ELSE "proceed"

\* `if not text or len(text.strip()) < 20: return []`; None has no strip()
DetectGuard(t) ==
    IF t = <<>> \/ t = <<"">> THEN "return"
    ELSE IF Len(Strip(t[1])) < TextMinLen THEN "return"
    ELSE "proceed"

Returned(value) == [status |-> "returned", value |-> value]
Raised == [status |-> "raised", value |-> <<>>]

\* detect_defects(text) as a function of the text and of what the classifier
\* answers for each unit: the loop over the units unrolled
RECURSIVE DetectFrom(_, _, _, _)
DetectFrom(units, available, answer, n) ==
    IF n > Len(units) THEN <<>>
    ELSE CombineResults(IF available
                        THEN MlClassifySentence("pipeline", answer, units[n]).value
                        ELSE <<>>,
                        RuleTable[units[n]], units[n])
             \o DetectFrom(units, available, answer, n + 1)

\* HybridDefectDetector.detect_defects of ml_defect_detector_simple.py
SimpleDetect(t, available, answer) ==
    IF DetectGuard(<<t>>) # "proceed" THEN <<>>
    ELSE DetectFrom(SplitIntoSentences(t), available, answer, 1)

\* the entry with the findings kept on the detector instead of a fresh list
Call_KeepDefects ==
    /\ pc = "idle"
    /\ Len(returns) < MaxCalls
    /\ LET g == DetectGuard(text)
       IN  IF g = "proceed"
           THEN /\ sentences' = SplitIntoSentences(text[1])
                /\ idx' = 1
                /\ ml_results' = <<>>
                /\ rule_results' = <<>>
                /\ combined_results' = <<>>
                /\ pc' = "loop"
                /\ UNCHANGED <<returns, defects>>
           ELSE /\ returns' = Append(returns, IF g = "raise" THEN Raised ELSE Returned(<<>>))
                /\ UNCHANGED <<sentences, idx, defects, ml_results, rule_results,
                               combined_results, pc>>
    /\ UNCHANGED <<ml_available, classifier, oracle, text>>

\* entry of detect_defects up to the for loop
Call ==
    /\ pc = "idle"
    /\ Len(returns) < MaxCalls
    /\ LET g == DetectGuard(text)
       IN  IF g = "proceed"
           THEN /\ sentences' = SplitIntoSentences(text[1])
                /\ idx' = 1
                /\ defects' = <<>>
                /\ ml_results' = <<>>
                /\ rule_results' = <<>>
                /\ combined_results' = <<>>
                /\ pc' = "loop"
                /\ UNCHANGED returns
           ELSE /\ returns' = Append(returns, IF g = "raise" THEN Raised ELSE Returned(<<>>))
                /\ UNCHANGED <<sentences, idx, defects, ml_results, rule_results,
                               combined_results, pc>>
    /\ UNCHANGED <<ml_available, classifier, oracle, text>>

\* the head of the iteration with a latch: after a failure of the classifier
\* on an earlier unit of the call the ML branch is skipped
LoopStep_Latched ==
    /\ pc = "loop"
    /\ idx <= Len(sentences)
    /\ IF Len(Strip(sentences[idx])) < LoopMinLen
       THEN /\ idx' = idx + 1
            /\ UNCHANGED <<pc, ml_results>>
       ELSE IF /\ ml_available /\ classifier # "None"
               /\ \A j \in 1..(idx - 1) :
                     [sentence |-> sentences[j], out |-> [label |-> "RAISE", score |-> 0]]
                         \notin oracle
       THEN /\ pc' = "ml"
            /\ UNCHANGED <<idx, ml_results>>
       ELSE /\ ml_results' = <<>>
            /\ pc' = "rule"
            /\ UNCHANGED idx
    /\ UNCHANGED <<ml_available, classifier, oracle, text, sentences,
                   rule_results, combined_results, defects, returns>>

\* head of one iteration: the length check, then the ML branch
LoopStep ==
    /\ pc = "loop"
    /\ idx <= Len(sentences)
    /\ IF Len(Strip(sentences[idx])) < LoopMinLen
       THEN /\ idx' = idx + 1                               \* continue
            /\ UNCHANGED <<pc, ml_results>>
       ELSE IF ml_available /\ classifier # "None"
       THEN /\ pc' = "ml"                                   \* self.classifier(sentence) is called
            /\ UNCHANGED <<idx, ml_results>>
       ELSE /\ ml_results' = <<>>
            /\ pc' = "rule"
            /\ UNCHANGED idx
    /\ UNCHANGED <<ml_available, classifier, oracle, text, sentences,
                   rule_results, combined_results, defects, returns>>

\* the classifier answers (or raises) and _ml_classify_sentence finishes
ClassifierReturns(out) ==
    /\ pc = "ml"
    /\ OracleAllows(sentences[idx], out)
    /\ oracle' = oracle \cup {[sentence |-> sentences[idx], out |-> out]}
    /\ LET r == MlClassifySentence(classifier, out, sentences[idx])
       IN  IF r.raised
           THEN /\ returns' = Append(returns, Raised)
                /\ pc' = "idle"
                /\ UNCHANGED ml_results
           ELSE /\ ml_results' = r.value
                /\ pc' = "rule"
                /\ UNCHANGED returns
    /\ UNCHANGED <<ml_available, classifier, text, sentences, idx,
                   rule_results, combined_results, defects>>

\* the iteration with a deduplication across units: a finding is dropped
\* when its category was already found in an earlier unit
RuleStep_Dedup ==
    /\ pc = "rule"
    /\ LET rules == RuleTable[sentences[idx]]
           combined == CombineResults(ml_results, rules, sentences[idx])
           fresh(f) == \A i \in 1..Len(defects) : defects[i].type # f.type
       IN  /\ rule_results' = rules
           /\ combined_results' = combined
           /\ defects' = defects \o SelectSeq(combined, fresh)
    /\ idx' = idx + 1
    /\ pc' = "loop"
    /\ UNCHANGED <<ml_available, classifier, oracle, text, sentences,
                   ml_results, returns>>

\* rest of the iteration: rule-based detection, combination, extend
RuleStep ==
    /\ pc = "rule"
    /\ LET rules == RuleTable[sentences[idx]]
           combined == CombineResults(ml_results, rules, sentences[idx])
       IN  /\ rule_results' = rules
           /\ combined_results' = combined
           /\ defects' = defects \o combined
    /\ idx' = idx + 1
    /\ pc' = "loop"
    /\ UNCHANGED <<ml_available, classifier, oracle, text, sentences,
                   ml_results, returns>>

\* `return defects`
Return ==
    /\ pc = "loop"
    /\ idx > Len(sentences)
    /\ returns' = Append(returns, Returned(defects))
    /\ pc' = "idle"
    /\ UNCHANGED <<ml_available, classifier, oracle, text, sentences, idx,
                   ml_results, rule_results, combined_results, defects>>

Next ==
    \/ Call
    \/ LoopStep
    \/ \E out \in ClassifierOutcomes : ClassifierReturns(out)
    \/ RuleStep
    \/ Return

Spec == Init /\ [][Next]_vars

\* The interpreter keeps running the steps of detect_defects itself; the
\* answer of the classifier is the step of an external model, for which
\* nothing is assumed: it may never come.
SpecLive ==
    /\ Init /\ [][Next]_vars
    /\ WF_vars(LoopStep) /\ WF_vars(RuleStep) /\ WF_vars(Return)

-----------------------------------------------------------------------------
(* Two threads calling detect_defects on one detector instance *)

\* In this specification the locals of detect_defects (text, sentences, idx,
\* ml_results, rule_results, combined_results, defects), the position pc and
\* the returned values are kept per thread; ml_available and classifier are
\* the attributes of the one instance, and the classifier answers both threads.
Threads == {1, 2}

ConcTexts ==
    { <<>>,
      <<"Mold seen?!">>,
      <<Join(<<" Significant damp in the basement. ",
               "Urgent repair of rusting beams...">>)>>,
      <<Join(<<"Urgent repair of rusting beams...",
               "All rooms were clean and tidy.">>)>> }

InitConc ==
    /\ \E libs \in BOOLEAN, loads \in BOOLEAN :
          /\ ml_available = Constructed(libs, loads).ml_available
          /\ classifier = Constructed(libs, loads).classifier
    /\ oracle = {}
    /\ text \in [Threads -> ConcTexts]
    /\ pc = [t \in Threads |-> "idle"]
    /\ sentences = [t \in Threads |-> <<>>]
    /\ idx = [t \in Threads |-> 1]
    /\ ml_results = [t \in Threads |-> <<>>]
    /\ rule_results = [t \in Threads |-> <<>>]
    /\ combined_results = [t \in Threads |-> <<>>]
    /\ defects = [t \in Threads |-> <<>>]
    /\ returns = [t \in Threads |-> <<>>]

\* thread t enters detect_defects (each thread makes one call)
ThreadCall(t) ==
    /\ pc[t] = "idle"
    /\ returns[t] = <<>>
    /\ LET g == DetectGuard(text[t])
       IN  IF g = "proceed"
           THEN /\ sentences' = [sentences EXCEPT ![t] = SplitIntoSentences(text[t][1])]
                /\ idx' = [idx EXCEPT ![t] = 1]
                /\ defects' = [defects EXCEPT ![t] = <<>>]
                /\ pc' = [pc EXCEPT ![t] = "loop"]
                /\ UNCHANGED returns
           ELSE /\ returns' = [returns EXCEPT ![t] =
                                  <<IF g = "raise" THEN Raised ELSE Returned(<<>>)>>]
                /\ UNCHANGED <<sentences, idx, defects, pc>>
    /\ UNCHANGED <<ml_available, classifier, oracle, text, ml_results,
                   rule_results, combined_results>>

ThreadLoopStep(t) ==
    /\ pc[t] = "loop"
    /\ idx[t] <= Len(sentences[t])
    /\ IF Len(Strip(sentences[t][idx[t]])) < LoopMinLen
       THEN /\ idx' = [idx EXCEPT ![t] = idx[t] + 1]
            /\ UNCHANGED <<pc, ml_results>>
       ELSE IF ml_available /\ classifier # "None"
       THEN /\ pc' = [pc EXCEPT ![t] = "ml"]
            /\ UNCHANGED <<idx, ml_results>>
       ELSE /\ ml_results' = [ml_results EXCEPT ![t] = <<>>]
            /\ pc' = [pc EXCEPT ![t] = "rule"]
            /\ UNCHANGED idx
    /\ UNCHANGED <<ml_available, classifier, oracle, text, sentences,
                   rule_results, combined_results, defects, returns>>

ThreadClassifierReturns(t, out) ==
    /\ pc[t] = "ml"
    /\ OracleAllows(sentences[t][idx[t]], out)
    /\ oracle' = oracle \cup {[sentence |-> sentences[t][idx[t]], out |-> out]}
    /\ LET r == MlClassifySentence(classifier, out, sentences[t][idx[t]])
       IN  IF r.raised
           THEN /\ returns' = [returns EXCEPT ![t] = <<Raised>>]
                /\ pc' = [pc EXCEPT ![t] = "idle"]
                /\ UNCHANGED ml_results
           ELSE /\ ml_results' = [ml_results EXCEPT ![t] = r.value]
                /\ pc' = [pc EXCEPT ![t] = "rule"]
                /\ UNCHANGED returns
    /\ UNCHANGED <<ml_available, classifier, text, sentences, idx,
                   rule_results, combined_results, defects>>

\* the iteration with the findings kept in one list on the instance, which
\* both threads extend
ThreadRuleStep_SharedDefects(t) ==
    /\ pc[t] = "rule"
    /\ LET u == sentences[t][idx[t]]
           rules == RuleTable[u]
           combined == CombineResults(ml_results[t], rules, u)
       IN  /\ rule_results' = [rule_results EXCEPT ![t] = rules]
           /\ combined_results' = [combined_results EXCEPT ![t] = combined]
           /\ defects' = [x \in Threads |-> defects[x] \o combined]
    /\ idx' = [idx EXCEPT ![t] = idx[t] + 1]
    /\ pc' = [pc EXCEPT ![t] = "loop"]
    /\ UNCHANGED <<ml_available, classifier, oracle, text, sentences,
                   ml_results, returns>>

ThreadRuleStep(t) ==
    /\ pc[t] = "rule"
    /\ LET u == sentences[t][idx[t]]
           rules == RuleTable[u]
           combined == CombineResults(ml_results[t], rules, u)
       IN  /\ rule_results' = [rule_results EXCEPT ![t] = rules]
           /\ combined_results' = [combined_results EXCEPT ![t] = combined]
           /\ defects' = [defects EXCEPT ![t] = defects[t] \o combined]
    /\ idx' = [idx EXCEPT ![t] = idx[t] + 1]
    /\ pc' = [pc EXCEPT ![t] = "loop"]
    /\ UNCHANGED <<ml_available, classifier, oracle, text, sentences,
                   ml_results, returns>>

ThreadReturn(t) ==
    /\ pc[t] = "loop"
    /\ idx[t] > Len(sentences[t])
    /\ returns' = [returns EXCEPT ![t] = <<Returned(defects[t])>>]
    /\ pc' = [pc EXCEPT ![t] = "idle"]
    /\ UNCHANGED <<ml_available, classifier, oracle, text, sentences, idx,
                   ml_results, rule_results, combined_results, defects>>

NextConc ==
    \/ \E t \in Threads : ThreadCall(t)
    \/ \E t \in Threads : ThreadLoopStep(t)
    \/ \E t \in Threads, out \in ClassifierOutcomes : ThreadClassifierReturns(t, out)
    \/ \E t \in Threads : ThreadRuleStep(t)
    \/ \E t \in Threads : ThreadReturn(t)

SpecConc == InitConc /\ [][NextConc]_vars

-----------------------------------------------------------------------------
(* app.py: the keyword-based detect_defects *)

\* defect_keywords, in dict insertion order
defect_keywords == <<
    [type |-> "Cracks",     keywords |-> <<"crack", "cracked", "cracking", "fissure", "split">>],
    [type |-> "Damp",       keywords |-> <<"damp", "moisture", "wet", "humidity", "condensation">>],
    [type |-> "Corrosion",  keywords |-> <<"corrosion", "rust", "corroded", "oxidation", "deterioration">>],
    [type |-> "Mold",       keywords |-> <<"mold", "mould", "fungus", "mildew", "spores">>],
    [type |-> "Structural", keywords |-> <<"structural", "foundation", "beam", "support", "load-bearing">>],
    [type |-> "Electrical", keywords |-> <<"electrical", "wiring", "circuit", "outlet", "switch">>],
    [type |-> "Plumbing",   keywords |-> <<"plumbing", "pipe", "leak", "water damage", "drainage">>] >>

\* text.split('.'): every '.' is a delimiter, empty pieces are kept
SplitDot(s) ==
    LET dots == {i \in 1..Len(s) : CharAt(s, i) = "."}
        n == Cardinality(dots)
        from(k) == IF k = 1 THEN 1 ELSE Kth(dots, k - 1) + 1
        upto(k) == IF k = n + 1 THEN Len(s) ELSE Kth(dots, k) - 1
    IN  [k \in 1..(n + 1) |-> SubSeq(s, from(k), upto(k))]

\* the test of the inner loop on the sentence as written, not lower-cased
SentenceHas_NoLower(sentence, keyword) == Contains(sentence, keyword)

\* `keyword in sentence.lower()`
SentenceHas(sentence, keyword) == Contains(Lower(sentence), keyword)

\* the loop over the sentences for one keyword, left by break at the first hit
RECURSIVE KeywordFinding(_, _, _, _)
KeywordFinding(defect_type, keyword, split, n) ==
    IF n > Len(split) THEN <<>>
    ELSE IF SentenceHas(split[n], keyword)
         THEN <<[type     |-> defect_type,
                 keyword  |-> keyword,
                 sentence |-> Strip(split[n]),
                 severity |-> "Medium"]>>
         ELSE KeywordFinding(defect_type, keyword, split, n + 1)

\* the loop over the keywords of one category
RECURSIVE KeywordsFrom(_, _, _, _, _)
KeywordsFrom(entry, text_lower, split, k, acc) ==
    IF k > Len(entry.keywords) THEN acc
    ELSE KeywordsFrom(entry, text_lower, split, k + 1,
             IF Contains(text_lower, entry.keywords[k])
             THEN acc \o KeywordFinding(entry.type, entry.keywords[k], split, 1)
             ELSE acc)

\* the loop over the categories
RECURSIVE AppDetectFrom(_, _, _)
AppDetectFrom(text_lower, split, c) ==
    IF c > Len(defect_keywords) THEN <<>>
    ELSE KeywordsFrom(defect_keywords[c], text_lower, split, 1, <<>>)
             \o AppDetectFrom(text_lower, split, c + 1)

\* detect_defects(text) of app.py; None.lower() raises AttributeError
AppDetectDefects(t) ==
    IF t = <<>> THEN Raised
    ELSE Returned(AppDetectFrom(Lower(t[1]), SplitDot(t[1]), 1))

\* the detector of app.py is a function without state: the variables hold the
\* argument and the values returned so far
InitApp ==
    /\ ml_available = FALSE
    /\ classifier = "None"
    /\ oracle = {}
    /\ text \in Texts
    /\ pc = "idle"
    /\ sentences = <<>>
    /\ idx = 1
    /\ ml_results = <<>>
    /\ rule_results = <<>>
    /\ combined_results = <<>>
    /\ defects = <<>>
    /\ returns = <<>>

AppCall ==
    /\ Len(returns) < MaxCalls
    /\ returns' = Append(returns, AppDetectDefects(text))
    /\ UNCHANGED <<ml_available, classifier, oracle, text, pc, sentences, idx,
                   ml_results, rule_results, combined_results, defects>>

NextApp == AppCall

SpecApp == InitApp /\ [][NextApp]_vars

-----------------------------------------------------------------------------
(* ml_defect_detector.py: HybridDefectDetector.detect_defects_hybrid *)

\* defect_keywords of _rule_based_detection, in dict insertion order
rule_defect_keywords == <<
    [type |-> "Cracks",     keywords |-> <<"crack", "cracked", "cracking", "fissure", "split", "fracture">>],
    [type |-> "Damp",       keywords |-> <<"damp", "moisture", "wet", "humidity", "condensation", "water damage">>],
    [type |-> "Corrosion",  keywords |-> <<"corrosion", "rust", "corroded", "oxidation", "deterioration">>],
    [type |-> "Mold",       keywords |-> <<"mold", "mould", "fungus", "mildew", "spores">>],
    [type |-> "Structural", keywords |-> <<"structural", "foundation", "beam", "support", "load-bearing">>],
    [type |-> "Electrical", keywords |-> <<"electrical", "wiring", "circuit", "outlet", "switch">>],
    [type |-> "Plumbing",   keywords |-> <<"plumbing", "pipe", "leak", "drainage", "blockage">>] >>

RuleSentenceMinLen == 10
MlSentenceMinLen == 20
MlSentenceLimit == 10

\* [s.strip() for s in text.split('.') if len(s.strip()) > n]
LongSentences(t, n) ==
    LET kept == SelectSeq(SplitDot(t), LAMBDA p : Len(Strip(p)) > n)
    IN  [k \in 1..Len(kept) |-> Strip(kept[k])]

\* the loop over the sentences for one keyword, left by break at the first hit
RECURSIVE RuleKeywordFinding(_, _, _, _)
RuleKeywordFinding(defect_type, keyword, split, n) ==
    IF n > Len(split) THEN <<>>
    ELSE IF Contains(Lower(split[n]), keyword)
         THEN <<[type     |-> defect_type,
                 keyword  |-> keyword,
                 sentence |-> Strip(split[n]),
                 severity |-> "Medium",
                 method   |-> "Rule-based"]>>
         ELSE RuleKeywordFinding(defect_type, keyword, split, n + 1)

RECURSIVE RuleKeywordsFrom(_, _, _, _)
RuleKeywordsFrom(entry, text_lower, split, k) ==
    IF k > Len(entry.keywords) THEN <<>>
    ELSE (IF Contains(text_lower, entry.keywords[k])
          THEN RuleKeywordFinding(entry.type, entry.keywords[k], split, 1)
          ELSE <<>>) \o RuleKeywordsFrom(entry, text_lower, split, k + 1)

RECURSIVE RuleDetectFrom(_, _, _)
RuleDetectFrom(text_lower, split, c) ==
    IF c > Len(rule_defect_keywords) THEN <<>>
    ELSE RuleKeywordsFrom(rule_defect_keywords[c], text_lower, split, 1)
             \o RuleDetectFrom(text_lower, split, c + 1)

\* _rule_based_detection(text): the findings carry no confidence
RuleBasedDetection(t) ==
    RuleDetectFrom(Lower(t), LongSentences(t, RuleSentenceMinLen), 1)

\* MLDefectClassifier._determine_severity
MlDetermineSeverity(t, confidence) ==
    LET text_lower == Lower(t)
    IN  IF AnyKeyword(<<"critical", "severe", "dangerous", "urgent", "immediate">>, text_lower)
           \/ confidence > Pct(90) THEN "High"
        ELSE IF AnyKeyword(<<"significant", "notable", "concern", "problem">>, text_lower)
                \/ confidence > Pct(80) THEN "Medium"
        ELSE "Low"

\* What the model predicts for one sentence: <<>> when the prediction fails or
\* its confidence is not above 0.7, else a category with its confidence.
MlPicks ==
    { [type |-> "Cracks", confidence |-> Pct(80)],
      [type |-> "Structural", confidence |-> One] }

MlSentences(t) ==
    LET long == LongSentences(t, MlSentenceMinLen)
    IN  SubSeq(long, 1, Min(Len(long), MlSentenceLimit))

MlPredictions(t) ==
    [1..Len(MlSentences(t)) -> {<<>>} \cup {<<p>> : p \in MlPicks}]

RECURSIVE ClassifyFrom(_, _, _)
ClassifyFrom(sents, picks, n) ==
    IF n > Len(sents) THEN <<>>
    ELSE (IF picks[n] = <<>> THEN <<>>
          ELSE <<[type       |-> picks[n][1].type,
                  sentence   |-> sents[n],
                  confidence |-> picks[n][1].confidence,
                  severity   |-> MlDetermineSeverity(sents[n], picks[n][1].confidence),
                  method     |-> "ML"]>>) \o ClassifyFrom(sents, picks, n + 1)

\* MLDefectClassifier.classify_text with the model loaded
ClassifyText(t, picks) == ClassifyFrom(MlSentences(t), picks, 1)

WithConfidence(d, c) ==
    [type |-> d.type, keyword |-> d.keyword, sentence |-> d.sentence,
     severity |-> d.severity, method |-> d.method, confidence |-> c]

\* _merge_detections: the ML detections first, then the rule-based findings
\* that do not overlap one of them, with confidence 0.7
MergeDetections(rule_based, ml_based) ==
    LET overlap(r) == \E m \in 1..Len(ml_based) :
                          /\ r.type = ml_based[m].type
                          /\ Contains(Lower(ml_based[m].sentence), Lower(r.sentence))
        kept == SelectSeq(rule_based, LAMBDA r : ~overlap(r))
    IN  ml_based \o [k \in 1..Len(kept) |-> WithConfidence(kept[k], Pct(70))]

\* detect_defects_hybrid(text, use_ml); None.lower() raises AttributeError
DetectDefectsHybrid(t, use_ml, available, picks) ==
    IF t = <<>> THEN Raised
    ELSE LET rule_based_defects == RuleBasedDetection(t[1])
             ml_defects == ClassifyText(t[1], picks)
         IN  IF use_ml /\ available /\ ml_defects # <<>>
             THEN Returned(MergeDetections(rule_based_defects, ml_defects))
             ELSE Returned(rule_based_defects)

\* HybridDefectDetector(): ml_available is what load_pretrained_model returned
InitHybrid ==
    /\ ml_available \in BOOLEAN
    /\ classifier = IF ml_available THEN "model" ELSE "None"
    /\ oracle = {}
    /\ text \in Texts
    /\ pc = "idle"
    /\ sentences = <<>>
    /\ idx = 1
    /\ ml_results = <<>>
    /\ rule_results = <<>>
    /\ combined_results = <<>>
    /\ defects = <<>>
    /\ returns = <<>>

\* one call; ml_results keeps what classify_text returned, rule_results what
\* _rule_based_detection returned, pc the value of use_ml
HybridCall(use_ml, picks) ==
    /\ returns = <<>>
    /\ returns' = <<DetectDefectsHybrid(text, use_ml, ml_available, picks)>>
    /\ pc' = IF use_ml THEN "use_ml" ELSE "no_ml"
    /\ ml_results' = IF text # <<>> /\ use_ml /\ ml_available
                     THEN ClassifyText(text[1], picks) ELSE <<>>
    /\ rule_results' = IF text # <<>> THEN RuleBasedDetection(text[1]) ELSE <<>>
    /\ UNCHANGED <<ml_available, classifier, oracle, text, sentences, idx,
                   combined_results, defects>>

NextHybrid ==
    \E use_ml \in BOOLEAN :
        \E picks \in (IF text = <<>> THEN {<<>>} ELSE MlPredictions(text[1])) :
            HybridCall(use_ml, picks)

SpecHybrid == InitHybrid /\ [][NextHybrid]_vars

-----------------------------------------------------------------------------
(* Properties *)

ScenarioA == "The foundation shows visible cracks along the east wall."
ScenarioB == "There is a critical structural crack in the foundation."

Calls == 1..Len(returns)

\* the locals describe a finished iteration: the unit sentences[idx - 1]
IterationDone == pc \in {"loop", "idle"} /\ idx > 1

\* C1 as the spec states it (Scenario A): with the secondary signal disabled
\* the input yields exactly one Finding, which is Cracks, Low, rule-based.
C1_Original ==
    (text = <<ScenarioA>> /\ ~ml_available) =>
        \A k \in Calls :
            LET v == returns[k].value
            IN  /\ returns[k].status = "returned"
                /\ Len(v) = 1
                /\ v[1].type = "Cracks"
                /\ v[1].severity = "Low"
                /\ v[1].detection_method = "rule_based"

\* C1 amended: with the secondary signal disabled, Scenario A's input yields
\* exactly two Findings, Cracks then Structural ("foundation" is a pattern of
\* Structural), both with severity Low and detection method rule-based.
C1_ScenarioA ==
    (text = <<ScenarioA>> /\ ~ml_available) =>
        \A k \in Calls :
            LET v == returns[k].value
            IN  /\ returns[k].status = "returned"
                /\ Len(v) = 2
                /\ v[1].type = "Cracks"
                /\ v[2].type = "Structural"
                /\ \A i \in 1..2 : /\ v[i].severity = "Low"
                                   /\ v[i].detection_method = "rule_based"

C1_Witness == text = <<ScenarioA>> /\ ~ml_available /\ returns # <<>>

\* C2 as the spec states it (Scenario B): with the secondary signal disabled
\* the input yields exactly one Finding, Structural or Cracks, with confidence
\* at least 0.85 and severity High.
C2_Original ==
    (text = <<ScenarioB>> /\ ~ml_available) =>
        \A k \in Calls :
            LET v == returns[k].value
            IN  /\ returns[k].status = "returned"
                /\ Len(v) = 1
                /\ v[1].type \in {"Structural", "Cracks"}
                /\ v[1].confidence >= Pct(85)
                /\ v[1].severity = "High"

\* C2 amended: with the secondary signal disabled, Scenario B's input yields
\* exactly two Findings, Cracks then Structural, each with confidence at least
\* 0.85 and severity High.
C2_ScenarioB ==
    (text = <<ScenarioB>> /\ ~ml_available) =>
        \A k \in Calls :
            LET v == returns[k].value
            IN  /\ returns[k].status = "returned"
                /\ Len(v) = 2
                /\ v[1].type = "Cracks"
                /\ v[2].type = "Structural"
                /\ \A i \in 1..2 : /\ v[i].confidence >= Pct(85)
                                   /\ v[i].severity = "High"

C2_Witness ==
    /\ text = <<ScenarioB>> /\ ~ml_available /\ returns # <<>>
    /\ returns[1].value[1].confidence = Pct(90)

\* C3: when the secondary signal proposes the category of a rule match of the
\* unit, the two become one Finding of that category, with method hybrid and
\* confidence min(0.95, (secondary + rule) / 2 + 0.1); 0.8 and 0.7 give 0.85.
C3_AgreementMerge ==
    (IterationDone /\ ml_results # <<>>) =>
        \A i \in 1..Len(rule_results) :
            rule_results[i].type = ml_results[1].type =>
                LET a == ml_results[1].confidence
                    b == rule_results[i].confidence
                    f == combined_results[i]
                IN  /\ Len(combined_results) = Len(rule_results)
                    /\ Cardinality({j \in 1..Len(combined_results) :
                            combined_results[j].type = ml_results[1].type}) = 1
                    /\ f.type = ml_results[1].type
                    /\ f.detection_method = "hybrid_ml_rule"
                    /\ IF a + b + 2 * Pct(10) >= 2 * Pct(95)
                       THEN f.confidence = Pct(95)
                       ELSE 2 * f.confidence = a + b + 2 * Pct(10)
                    /\ (a = Pct(80) /\ b = Pct(70)) => f.confidence = Pct(85)

\* Scenario D: a Damp unit, rule confidence 0.7, secondary confidence 0.8
C3_Witness ==
    /\ IterationDone
    /\ ml_results # <<>>
    /\ ml_results[1].type = "Damp"
    /\ ml_results[1].confidence = Pct(80)
    /\ Len(rule_results) = 1
    /\ rule_results[1].type = "Damp"
    /\ rule_results[1].confidence = Pct(70)
    /\ Len(combined_results) = 1
    /\ combined_results[1].confidence = Pct(85)
    /\ combined_results[1].detection_method = "hybrid_ml_rule"

\* the texts with nothing to classify: None, the empty and the blank string,
\* and the texts none of whose sentences is longer than the threshold
NoQualifyingUnit ==
    { t \in Texts :
        \/ t = <<>>
        \/ Strip(t[1]) = ""
        \/ \A k \in DOMAIN ReSplit(t[1]) : Len(Strip(ReSplit(t[1])[k])) <= SplitMinLen }

\* C4: for every input text, None, "" and blank text included, detect_defects
\* returns a list and never raises (also when the classifier raises); for an
\* empty text or a text with no qualifying unit the list is empty.
C4_NeverRaises ==
    /\ \A k \in Calls : returns[k].status = "returned"
    /\ text \in NoQualifyingUnit => \A k \in Calls : returns[k].value = <<>>

C4_Witness == text = <<>> /\ returns # <<>> /\ returns[1] = Returned(<<>>)

CategoryIndex(type) ==
    CHOOSE k \in 1..Len(defect_categories) : defect_categories[k] = type

\* C5: for every unit _rule_based_classify yields at most one match per
\* category (at most seven matches), in taxonomy definition order, however many
\* patterns of a category occur in the unit.
C5_CategoryExclusive ==
    /\ Len(rule_results) <= Len(defect_categories)
    /\ \A i, j \in 1..Len(rule_results) :
          i < j => CategoryIndex(rule_results[i].type) < CategoryIndex(rule_results[j].type)

\* a unit in which two patterns of Cracks and two of Structural occur
C5_Witness ==
    /\ IterationDone
    /\ sentences[idx - 1] = "There is a critical structural crack in the foundation"
    /\ Len(rule_results) = 2
    /\ \A k \in {1, 5} :
          Cardinality({p \in 1..Len(defect_patterns[k].patterns) :
              ReSearch(defect_patterns[k].patterns[p], Lower(sentences[idx - 1]))}) >= 2

\* C6: every Finding returned by detect_defects, rule-based or hybrid, for every
\* score of the secondary signal in [0, 1], has a confidence within [0, 0.95].
C6_ConfidenceBounds ==
    \A k \in Calls : \A i \in 1..Len(returns[k].value) :
        /\ returns[k].value[i].confidence >= 0
        /\ returns[k].value[i].confidence <= Pct(95)

\* a hybrid Finding at the cap, next to a rule-based one
C6_Witness ==
    \E k \in Calls : \E i, j \in 1..Len(returns[k].value) :
        /\ returns[k].value[i].detection_method = "hybrid_ml_rule"
        /\ returns[k].value[i].confidence = Pct(95)
        /\ returns[k].value[j].detection_method = "rule_based"

\* the units that contain a High-severity word, a Medium-severity word
HighUnits ==
    { u \in UnitSentences :
        \E k \in 1..Len(high_severity_keywords) :
            Contains(Lower(u), high_severity_keywords[k]) }

MediumUnits ==
    { u \in UnitSentences :
        \E k \in 1..Len(medium_severity_keywords) :
            Contains(Lower(u), medium_severity_keywords[k]) }

\* C7: the severity of a unit is High whenever it contains a High-severity
\* word, also next to Medium-severity words; Medium only when it contains a
\* Medium word and no High word; Low when it contains neither.
C7_SeverityPriority ==
    \A i \in 1..Len(defects) :
        LET u == defects[i].sentence
        IN  /\ u \in HighUnits => defects[i].severity = "High"
            /\ (u \notin HighUnits /\ u \in MediumUnits) => defects[i].severity = "Medium"
            /\ (u \notin HighUnits /\ u \notin MediumUnits) => defects[i].severity = "Low"

\* a unit with "urgent" (High) and "repair" (Medium)
C7_Witness ==
    \E i \in 1..Len(defects) :
        /\ defects[i].sentence \in HighUnits \cap MediumUnits
        /\ defects[i].severity = "High"

\* the texts all of whose sentences are shorter than the threshold
AllShort ==
    { t \in Texts \ {<<>>} :
        \A k \in DOMAIN ReSplit(t[1]) : Len(Strip(ReSplit(t[1])[k])) < SplitMinLen }

\* C8: when every sentence of the input is shorter than the minimum threshold,
\* segmentation yields no unit and detect_defects returns no Finding, also when
\* the short sentences contain defect keywords.
C8_ShortUnitsFiltered ==
    text \in AllShort =>
        /\ sentences = <<>>
        /\ \A k \in Calls : returns[k] = Returned(<<>>)

\* two short sentences with the keyword "mold", in a text long enough to be
\* segmented
C8_Witness ==
    /\ text = <<"Mold seen?!Mold seen?!">>
    /\ text \in AllShort
    /\ DetectGuard(text) = "proceed"
    /\ pc = "idle"
    /\ returns # <<>>

\* C9: two calls of detect_defects on one detector with the same text return
\* identical Finding sequences (the classifier being a function of the
\* sentence).
C9_Idempotent ==
    \A j, k \in Calls : returns[j] = returns[k]

C9_Witness ==
    /\ Len(returns) >= 2
    /\ ml_available
    /\ \E i \in 1..Len(returns[2].value) :
          returns[2].value[i].detection_method = "hybrid_ml_rule"

\* the categories of which some pattern occurs in the unit, in taxonomy order
RECURSIVE CategoriesIn(_, _)
CategoriesIn(u, k) ==
    IF k > Len(defect_categories) THEN <<>>
    ELSE (IF \E p \in 1..Len(defect_patterns[k].patterns) :
                ReSearch(defect_patterns[k].patterns[p], Lower(u))
          THEN <<defect_categories[k]>> ELSE <<>>) \o CategoriesIn(u, k + 1)

UnitCategories == [u \in UnitSentences |-> CategoriesIn(u, 1)]

\* unit by unit in text order, category by category in taxonomy order
RECURSIVE ExpectedOrder(_, _)
ExpectedOrder(units, n) ==
    IF n > Len(units) THEN <<>>
    ELSE [c \in 1..Len(UnitCategories[units[n]]) |->
             <<units[n], UnitCategories[units[n]][c]>>] \o ExpectedOrder(units, n + 1)

Answered(sentence, label) ==
    \E e \in oracle : e.sentence = sentence /\ e.out.label = label

\* C11: the secondary signal never invents a category: what it proposes for a
\* unit is one of the categories the rule patterns match in that unit, it
\* proposes nothing for a unit without a rule match, and no Finding has the
\* detection method ml_only.
C11_NeverInvents ==
    /\ (pc = "rule" /\ ml_results # <<>>)
          => ml_results[1].type \in Range(UnitCategories[sentences[idx]])
    /\ (pc = "rule" /\ UnitCategories[sentences[idx]] = <<>>) => ml_results = <<>>
    /\ \A i \in 1..Len(defects) : defects[i].detection_method # "ml_only"
    /\ \A k \in Calls : \A i \in 1..Len(returns[k].value) :
          returns[k].value[i].detection_method # "ml_only"

\* the classifier said NEGATIVE about a unit without any pattern, nothing was
\* proposed, and an earlier unit with two categories got a proposal
C11_Witness ==
    /\ pc = "rule"
    /\ UnitCategories[sentences[idx]] = <<>>
    /\ Answered(sentences[idx], "NEGATIVE")
    /\ ml_results = <<>>
    /\ \E i \in 1..Len(defects) : defects[i].detection_method = "hybrid_ml_rule"

\* C12: a failure of the auxiliary classifier is isolated: when it did not
\* initialise, or raised on the unit, detect_defects does not raise and the
\* unit's findings are exactly its rule-based findings (same categories,
\* confidences and severities, method rule_based).
C12_FailureIsolated ==
    /\ \A k \in Calls : returns[k] # Raised
    /\ (IterationDone /\ (~ml_available \/ Answered(sentences[idx - 1], "RAISE")))
          => LET u == sentences[idx - 1]
                 rules == RuleTable[u]
             IN  /\ Len(combined_results) = Len(rules)
                 /\ \A i \in 1..Len(rules) :
                       /\ combined_results[i].type = rules[i].type
                       /\ combined_results[i].confidence = rules[i].confidence
                       /\ combined_results[i].severity = SeverityTable[u]
                       /\ combined_results[i].sentence = u
                       /\ combined_results[i].detection_method = "rule_based"

\* the classifier raised on a unit with a rule match, after having answered
\* NEGATIVE on an earlier unit of the same call
C12_Witness ==
    /\ IterationDone
    /\ ml_available
    /\ Answered(sentences[idx - 1], "RAISE")
    /\ combined_results # <<>>
    /\ combined_results[1].detection_method = "rule_based"
    /\ \E i \in 1..Len(defects) : defects[i].detection_method = "hybrid_ml_rule"


\* what the classifier answered for a unit
OracleOut(u) == (CHOOSE e \in oracle : e.sentence = u).out

\* the findings of one unit when nothing else runs
AloneUnit(u) ==
    CombineResults(IF ml_available /\ classifier # "None"
                   THEN MlClassifySentence(classifier, OracleOut(u), u).value
                   ELSE <<>>,
                   RuleBasedClassify(u), u)

RECURSIVE AloneFrom(_, _)
AloneFrom(units, n) ==
    IF n > Len(units) THEN <<>>
    ELSE AloneUnit(units[n]) \o AloneFrom(units, n + 1)

\* what detect_defects(t) returns when it runs alone on the detector
Alone(t) ==
    IF t = <<>> \/ Len(Strip(t[1])) < TextMinLen THEN Returned(<<>>)
    ELSE Returned(AloneFrom(SplitIntoSentences(t[1]), 1))

C13_SameAsAlone ==
    \A t \in Threads : \A k \in 1..Len(returns[t]) : returns[t][k] = Alone(text[t])

\* C13: concurrent invocations are independent: no step of detect_defects
\* writes the classifier or the ml_available flag of the instance (the pattern
\* table and the category list are constants), and under every interleaving
\* of two calls each call returns what it returns when run alone.
C13_Independent ==
    /\ []C13_SameAsAlone
    /\ [][ml_available' = ml_available /\ classifier' = classifier]_vars

\* both threads have returned findings, for different texts that share a
\* unit, one of them with a corroborated finding
C13_Witness ==
    /\ \A t \in Threads : returns[t] # <<>> /\ returns[t][1].value # <<>>
    /\ text[1] # text[2]
    /\ returns[1][1].value # returns[2][1].value
    /\ \E i \in 1..Len(returns[1][1].value) :
          returns[1][1].value[i].detection_method = "hybrid_ml_rule"


AppKeywords(c) == Range(defect_keywords[c].keywords)

\* the text holds a keyword of the taxonomy, letter case ignored
HasKeyword(t) ==
    \E c \in 1..Len(defect_keywords) : \E kw \in AppKeywords(c) : Contains(Lower(t), kw)

\* C14: for every text that contains a keyword of the taxonomy (letter case
\* ignored) the keyword-based detect_defects of app.py returns at least one
\* finding, and every finding carries its category, a keyword of that category
\* and a sentence of the text that contains that keyword.
C14_KeywordFound ==
    \A k \in Calls :
        text # <<>> =>
            LET v == returns[k].value
            IN  /\ returns[k].status = "returned"
                /\ HasKeyword(text[1]) => Len(v) >= 1
                /\ \A i \in 1..Len(v) :
                      /\ \E c \in 1..Len(defect_keywords) :
                            /\ v[i].type = defect_keywords[c].type
                            /\ v[i].keyword \in AppKeywords(c)
                      /\ Contains(Lower(v[i].sentence), v[i].keyword)
                      /\ Contains(text[1], v[i].sentence)

\* a keyword written with a capital, and a second sentence with another one
C14_Witness ==
    /\ text = <<"Cracks in the wall. Significant damp in the basement. ">>
    /\ Len(returns) >= 1
    /\ Len(returns[1].value) = 2
    /\ returns[1].value[1].keyword = "crack"
    /\ returns[1].value[1].sentence = "Cracks in the wall"
    /\ returns[1].value[2].keyword = "damp"


\* the pattern occurs somewhere in s: for a literal followed by optional
\* characters only, that is plain containment of the literal
LenientHit(pat, s) ==
    IF \A k \in 2..Len(pat) : pat[k].kind = "opt"
    THEN Contains(s, pat[1].s)
    ELSE ReSearch(pat, s)

\* the categories of which some pattern occurs in the unit, lower-cased
LenientCategories ==
    [u \in UnitSentences |->
        { defect_patterns[c].type : c \in
            { c \in 1..Len(defect_patterns) :
                \E p \in 1..Len(defect_patterns[c].patterns) :
                    LenientHit(defect_patterns[c].patterns[p], Lower(u)) } }]

RuleTypes == {rule_results[i].type : i \in 1..Len(rule_results)}

\* C15: matching is lenient: a unit yields a match for a category whenever its
\* lower-cased text contains one of the category's patterns anywhere, inside a
\* longer word included; no word boundary is required.
C15_LenientMatching ==
    IterationDone => LenientCategories[sentences[idx - 1]] \subseteq RuleTypes

\* "crack" inside "cracked": the only occurrence in the unit
C15_Witness ==
    /\ IterationDone
    /\ sentences[idx - 1] = "Safety hazard: cracked foundation"
    /\ "Cracks" \in RuleTypes
    /\ \E i \in 1..Len(defects) : defects[i].type = "Cracks"


\* the pattern with its letters lower-cased: searched in the lower-cased unit
\* it is the pattern applied with letter case ignored (re.IGNORECASE)
LowerPat(pat) ==
    [k \in 1..Len(pat) |->
        [kind |-> pat[k].kind,
         s    |-> Lower(pat[k].s),
         cls  |-> {Lower(ch) : ch \in pat[k].cls}]]

\* the categories of which some pattern matches in the unit, case ignored
CaseBlindCategories ==
    [u \in UnitSentences |->
        { defect_patterns[c].type : c \in
            { c \in 1..Len(defect_patterns) :
                \E p \in 1..Len(defect_patterns[c].patterns) :
                    ReSearch(LowerPat(defect_patterns[c].patterns[p]), Lower(u)) } }]

\* C16 as the spec states it: for every pattern rule and every unit holding a
\* string that matches the rule when letter case is ignored, the classifier
\* yields a match for the rule's category, and the Finding's sentence keeps
\* the unit's original casing.
C16_Original ==
    IterationDone =>
        /\ CaseBlindCategories[sentences[idx - 1]] \subseteq RuleTypes
        /\ \A i \in 1..Len(combined_results) :
              combined_results[i].sentence = sentences[idx - 1]


\* the units of a text when a piece is discarded if and only if its trimmed
\* length is below 15
UnitsAtLeast(t) ==
    LET pieces == ReSplit(t)
        kept == SelectSeq(pieces, LAMBDA p : Len(Strip(p)) >= LoopMinLen)
    IN  [k \in 1..Len(kept) |-> Strip(kept[k])]

\* C17 as the spec states it: the text is split at every run of '.', '!' or
\* '?', each piece is trimmed, and a piece is discarded if and only if its
\* trimmed length is below 15; a piece of exactly 15 characters is retained
\* and classified.
C17_Original ==
    pc # "idle" => sentences = UnitsAtLeast(text[1])


\* the boost phrases that occur in the unit and are patterns of the category
OwnBoostPhrases(type, u) ==
    { k \in 1..Len(specificity_boosts) :
        /\ ReSearch(specificity_boosts[k].pattern, Lower(u))
        /\ \E c \in 1..Len(defect_patterns) :
              /\ defect_patterns[c].type = type
              /\ specificity_boosts[k].pattern \in Range(defect_patterns[c].patterns) }

\* C18 as the spec states it: a rule match's confidence is above the base 0.7
\* only when the unit contains a high-specificity phrase of the same category
\* as the match; a match of another category in the same unit keeps the base.
C18_Original ==
    IterationDone =>
        \A i \in 1..Len(rule_results) :
            rule_results[i].confidence > base_confidence
                => OwnBoostPhrases(rule_results[i].type, sentences[idx - 1]) # {}


\* the boost table in its order, as plain phrases with their boosts in percent
BoostOrder ==
    << <<"structural crack", 20>>, <<"water damage", 20>>, <<"electrical hazard", 25>>,
       <<"foundation", 15>>, <<"safety hazard", 20>> >>

\* base plus the boost of the first phrase of the table found in the unit,
\* capped at 0.9
ExpectedRuleConfidence ==
    [u \in UnitSentences |->
        LET found == {k \in 1..Len(BoostOrder) : Contains(Lower(u), BoostOrder[k][1])}
            first == CHOOSE k \in found : \A j \in found : k <= j
        IN  IF found = {} THEN Pct(70)
            ELSE Min(Pct(90), Pct(70) + Pct(BoostOrder[first][2]))]

\* C19: a rule confidence is the base 0.7 plus at most one boost, capped at
\* 0.9: only the first phrase of the boost table found in the unit is applied,
\* boosts never accumulate, and every rule-based confidence is 0.70, 0.85 or
\* 0.90.
C19_OneBoost ==
    IterationDone =>
        \A i \in 1..Len(rule_results) :
            /\ rule_results[i].confidence = ExpectedRuleConfidence[sentences[idx - 1]]
            /\ rule_results[i].confidence \in {Pct(70), Pct(85), Pct(90)}

\* a unit with two boost phrases, "foundation" before "safety hazard" in the
\* table: 0.85, where both boosts together would reach the cap
C19_Witness ==
    /\ IterationDone
    /\ sentences[idx - 1] = "Safety hazard: cracked foundation"
    /\ Len(rule_results) = 2
    /\ rule_results[1].confidence = Pct(85)
    /\ \E i \in 1..Len(defects) :
          defects[i].sentence = "Electrical hazard at the panel"
              /\ defects[i].confidence = Pct(90)


\* the rule match a hybrid Finding was made from has the Finding's position
HybridAt(i) ==
    /\ i \in 1..Len(combined_results)
    /\ combined_results[i].detection_method = "hybrid_ml_rule"

\* C20 as the spec states it: for every unit and every score of the secondary
\* signal, the confidence of a hybrid Finding is at least the rule-based
\* confidence of the same match.
C20_Original ==
    IterationDone =>
        \A i \in 1..Len(combined_results) :
            HybridAt(i) => combined_results[i].confidence >= rule_results[i].confidence

\* C20 amended: a hybrid Finding has the confidence min(0.95, (m + r)/2 + 0.1),
\* r the rule confidence of the match and m = min(0.95, 1.2 * score) the
\* secondary confidence; it is at least r if and only if m >= r - 0.2, and
\* below r otherwise.
C20_Amended ==
    IterationDone =>
        \A i \in 1..Len(combined_results) :
            HybridAt(i) =>
                LET r == rule_results[i].confidence
                    m == Min(Pct(95), (OracleOut(sentences[idx - 1]).score * 12) \div 10)
                    h == combined_results[i].confidence
                IN  /\ 2 * h = Min(2 * Pct(95), m + r + 2 * Pct(10))
                    /\ h >= r <=> m >= r - Pct(20)

\* a hybrid Finding below its rule confidence, after one exactly at it
C20_Witness ==
    /\ IterationDone
    /\ HybridAt(1)
    /\ combined_results[1].confidence < rule_results[1].confidence
    /\ rule_results[1].confidence = Pct(90)
    /\ OracleOut(sentences[idx - 1]).score > One \div 2
    /\ \E i \in 1..Len(defects) :
          /\ defects[i].detection_method = "hybrid_ml_rule"
          /\ defects[i].confidence = Pct(85)
          /\ defects[i].sentence # sentences[idx - 1]
          /\ OracleOut(defects[i].sentence).score = (13 * One) \div 24


\* the findings of a unit with the secondary signal disabled
DisabledFindings ==
    [u \in UnitSentences |->
        [i \in 1..Len(RuleTable[u]) |->
            [type             |-> RuleTable[u][i].type,
             sentence         |-> u,
             confidence       |-> RuleTable[u][i].confidence,
             severity         |-> SeverityTable[u],
             detection_method |-> "rule_based"]]]

\* C21: enabling the secondary signal changes at most one Finding per unit:
\* when it fires, exactly one Finding of the unit is hybrid, the one of the
\* first matching category in taxonomy order; every other Finding stays
\* rule-based with its rule confidence, and number, order, categories,
\* sentences and severities are those produced with the signal disabled.
C21_OneFindingChanges ==
    IterationDone =>
        LET u == sentences[idx - 1]
            off == DisabledFindings[u]
        IN  /\ Len(combined_results) = Len(off)
            /\ \A i \in 1..Len(off) :
                  /\ combined_results[i].type = off[i].type
                  /\ combined_results[i].sentence = off[i].sentence
                  /\ combined_results[i].severity = off[i].severity
            /\ ml_results = <<>> => combined_results = off
            /\ ml_results # <<>> =>
                  /\ combined_results[1].detection_method = "hybrid_ml_rule"
                  /\ combined_results[1].type = UnitCategories[u][1]
                  /\ \A i \in 2..Len(off) : combined_results[i] = off[i]

\* the signal fired on a unit with two categories: the first Finding is
\* hybrid, the second is the rule-based one
C21_Witness ==
    /\ IterationDone
    /\ ml_results # <<>>
    /\ Len(combined_results) = 2
    /\ combined_results[1].detection_method = "hybrid_ml_rule"
    /\ combined_results[2].detection_method = "rule_based"
    /\ combined_results[1].confidence # rule_results[1].confidence


\* the classifier failed on a unit of this call before unit n (it answers a
\* sentence always alike, so a recorded failure on an earlier unit of the
\* call is a failure in the call)
FailedBefore(n) ==
    ml_available /\ \E j \in 1..(n - 1) : Answered(sentences[j], "RAISE")

HasHybrid(fs) == \E i \in 1..Len(fs) : fs[i].detection_method = "hybrid_ml_rule"

\* C22 as the spec states it: once the classifier has failed on one unit of a
\* detect_defects call, no later unit of the call is sent to the classifier
\* or receives a hybrid Finding.
C22_Original ==
    /\ pc = "ml" => ~FailedBefore(idx)
    /\ (IterationDone /\ FailedBefore(idx - 1)) => ~HasHybrid(combined_results)

\* C22 amended: a failure of the classifier is confined to the unit it
\* occurred on: with the classifier loaded every unit of a call is sent to
\* it, whatever happened on earlier units, and a unit receives a hybrid
\* Finding exactly when the classifier answers NEGATIVE for it and a pattern
\* matches it.
C22_Amended ==
    (IterationDone /\ ml_available) =>
        LET u == sentences[idx - 1]
        IN  /\ \E e \in oracle : e.sentence = u
            /\ HasHybrid(combined_results)
                  <=> (Answered(u, "NEGATIVE") /\ RuleTable[u] # <<>>)

\* the classifier failed on the first unit and the second unit, a different
\* sentence, was sent to it and got a hybrid Finding
C22_Witness ==
    /\ IterationDone
    /\ idx = 3
    /\ FailedBefore(2)
    /\ sentences[1] # sentences[2]
    /\ HasHybrid(combined_results)
    /\ Len(defects) > Len(combined_results)
    /\ defects[1].sentence = sentences[1]
    /\ defects[1].detection_method = "rule_based"


\* C23 as the spec states it: detect_defects never blocks indefinitely on the
\* secondary signal: a call that has been entered eventually returns, even if
\* the auxiliary classifier never responds.
C23_Original == (pc # "idle") ~> (pc = "idle")


\* C24 as the spec states it: every unit that segmentation retains and that
\* matches at least one pattern contributes at least one Finding to the
\* result of detect_defects, whatever the total length of the document.
C24_Original ==
    \A k \in Calls :
        text # <<>> =>
            \A u \in Range(SplitIntoSentences(text[1])) :
                UnitCategories[u] # <<>>
                    => \E i \in 1..Len(returns[k].value) : returns[k].value[i].sentence = u


\* C25 as the spec states it: the list returned by the keyword-based
\* detect_defects holds at most one finding per (category, sentence) pair.
C25_Original ==
    \A k \in Calls :
        LET v == returns[k].value
        IN  \A i, j \in 1..Len(v) :
                (v[i].type = v[j].type /\ v[i].sentence = v[j].sentence) => i = j


\* C26 as the spec states it: every finding returned by detect_defects_hybrid
\* carries a confidence in [0,1], whether ML is unavailable, disabled, fails,
\* returns no detections or returns some.
C26_Original ==
    \A k \in Calls :
        \A i \in 1..Len(returns[k].value) :
            /\ "confidence" \in DOMAIN returns[k].value[i]
            /\ returns[k].value[i].confidence \in 0..One


-----------------------------------------------------------------------------
(* app_railway.py: upload_file, two requests in flight *)

\* In this specification the variables hold, per request: pc the position in
\* upload_file, sentences the uploaded file (request.files['file']), text the
\* extracted text, defects the detector's findings, ml_results the file read
\* for the hash, returns the analysis id of the redirect. Of the application:
\* ml_available is `ml_detector and ML_AVAILABLE`, classifier the pipeline
\* inside the detector, oracle the uploads folder (file name to file body),
\* rule_results the analysis table and combined_results the defects table.
Requests == {1, 2}

ALLOWED_EXTENSIONS == {"pdf", "docx", "doc", "txt"}

UploadContents ==
    { "The foundation shows visible cracks along the east wall.",
      Join(<<" Significant damp in the basement. ",
             "Urgent repair of rusting beams...">>) }

\* readable: python-docx can open the body
Uploads(stems) ==
    { [stem |-> n, ext |-> e, body |-> [text |-> c, readable |-> TRUE]] :
          n \in stems, e \in {"txt", "docx"}, c \in UploadContents } \cup
    { [stem |-> n, ext |-> e, body |-> [text |-> "", readable |-> FALSE]] :
          n \in stems, e \in {"docx", "doc", "exe"} }

Filename(f) == f.stem \o "." \o f.ext

\* detect_defects_fallback: defect_patterns in dict insertion order
railway_defect_patterns == <<
    [type |-> "Cracks", patterns |-> <<
        Lit("crack") \o Opt({"s"}), Lit("fracture") \o Opt({"s"}),
        Lit("split") \o Opt({"s"}), Lit("fissure") \o Opt({"s"}) >>],
    [type |-> "Damp", patterns |-> <<
        Lit("damp") \o Opt({"n","e","s"}), Lit("moisture"),
        Lit("wet") \o Opt({"n","e","s"}), Lit("humid") \o Opt({"i","t","y"}) >>],
    [type |-> "Mold", patterns |-> <<
        Lit("mold"), Lit("mould"), Lit("fungus"), Lit("spore") \o Opt({"s"}) >>],
    [type |-> "Structural", patterns |-> <<
        Lit("structural"), Lit("foundation"),
        Lit("beam") \o Opt({"s"}), Lit("support") \o Opt({"s"}) >>],
    [type |-> "Electrical", patterns |-> <<
        Lit("electrical"), Lit("wiring"),
        Lit("cable") \o Opt({"s"}), Lit("outlet") \o Opt({"s"}) >>],
    [type |-> "Plumbing", patterns |-> <<
        Lit("plumbing"), Lit("pipe") \o Opt({"s"}),
        Lit("leak") \o Opt({"s"}), Lit("drain") \o Opt({"s"}) >>],
    [type |-> "Corrosion", patterns |-> <<
        Lit("rust") \o Opt({"y"}), Lit("corrosion"), Lit("oxidation"),
        Lit("deteriorat") >>] >>

FallbackMinLen == 10

\* len(re.findall(pattern, s)): the matches from left to right, each taking
\* its optional character when it is there, none overlapping the one before
RECURSIVE FindAll(_, _, _)
FindAll(pat, s, from) ==
    LET n == Len(pat[1].s)
        hits == {i \in from..(Len(s) - n + 1) : SubSeq(s, i, i + n - 1) = pat[1].s}
    IN  IF hits = {} THEN 0
        ELSE LET i == CHOOSE h \in hits : \A g \in hits : h <= g
                 opt == IF Len(pat) > 1 /\ i + n <= Len(s) /\ CharAt(s, i + n) \in pat[2].cls
                        THEN 1 ELSE 0
             IN  1 + FindAll(pat, s, i + n + opt)

RECURSIVE FallbackCategories(_, _, _)
FallbackCategories(sentence, sentence_lower, c) ==
    IF c > Len(railway_defect_patterns) THEN <<>>
    ELSE LET entry == railway_defect_patterns[c]
             p == FirstHit(entry.patterns, sentence_lower, 1)
         IN  (IF p = 0 THEN <<>>
              ELSE <<[type       |-> entry.type,
                      sentence   |-> sentence,
                      confidence |-> Min(Pct(95),
                                         Pct(70) + FindAll(entry.patterns[p], sentence_lower, 1) * Pct(10)),
                      severity   |-> "Medium",
                      method     |-> "rule_based"]>>)
                 \o FallbackCategories(sentence, sentence_lower, c + 1)

RECURSIVE FallbackFrom(_, _)
FallbackFrom(pieces, n) ==
    IF n > Len(pieces) THEN <<>>
    ELSE LET sentence == Strip(pieces[n])
         IN  (IF Len(sentence) < FallbackMinLen THEN <<>>
              ELSE FallbackCategories(sentence, Lower(sentence), 1))
                 \o FallbackFrom(pieces, n + 1)

DetectDefectsFallback(t) == FallbackFrom(ReSplit(t), 1)

\* the detectors on every text an upload can give them, computed once
SimpleDetectTable ==
    [t \in UploadContents \cup ExtractionMessages, available \in BOOLEAN,
     answer \in ClassifierOutcomes |-> SimpleDetect(t, available, answer)]

FallbackTable ==
    [t \in UploadContents \cup ExtractionMessages |-> DetectDefectsFallback(t)]

\* extract_text_from_file(file_path, file_type) with the folder as it is
ExtractTextFromFile(folder, filename, file_type) ==
    IF file_type = "docx"
    THEN IF filename \in DOMAIN folder /\ folder[filename].readable
         THEN folder[filename].text
         ELSE "Error reading DOCX file"
    ELSE IF file_type = "txt"
    THEN IF filename \in DOMAIN folder
         THEN folder[filename].text
         ELSE NoSuchFile(filename)
    ELSE "Unsupported file type"

\* the row upload_file inserts for a finding
DefectRow(analysis_id, defect) ==
    [analysis_id      |-> analysis_id,
     defect_type      |-> defect.type,
     severity         |-> defect.severity,
     confidence       |-> defect.confidence,
     sentence         |-> defect.sentence,
     detection_method |-> IF "method" \in DOMAIN defect THEN defect.method ELSE "unknown"]

InitUpload ==
    /\ ml_available \in BOOLEAN
    /\ classifier \in (IF ml_available THEN {"pipeline", "None"} ELSE {"None"})
    /\ oracle = <<>>
    /\ sentences \in {f \in [Requests -> Uploads(UploadStems)] : f[1].stem = "report"}
    /\ pc = [r \in Requests |-> "start"]
    /\ text = [r \in Requests |-> <<>>]
    /\ defects = [r \in Requests |-> <<>>]
    /\ ml_results = [r \in Requests |-> <<>>]
    /\ returns = [r \in Requests |-> <<>>]
    /\ rule_results = <<>>
    /\ combined_results = <<>>
    /\ idx = 1

\* allowed_file, secure_filename, file.save(file_path)
Save(r) ==
    /\ pc[r] = "start"
    /\ IF sentences[r].ext \in ALLOWED_EXTENSIONS
       THEN /\ oracle' = [n \in DOMAIN oracle \cup {Filename(sentences[r])} |->
                             IF n = Filename(sentences[r]) THEN sentences[r].body
                             ELSE oracle[n]]
            /\ pc' = [pc EXCEPT ![r] = "saved"]
       ELSE /\ pc' = [pc EXCEPT ![r] = "rejected"]
            /\ UNCHANGED oracle
    /\ UNCHANGED <<ml_available, classifier, text, sentences, idx, ml_results,
                   rule_results, combined_results, defects, returns>>

\* extract_text_from_file, then the detector; answer is what the classifier
\* inside the detector says of the units of this text
Analyze(r, answer) ==
    /\ pc[r] = "saved"
    /\ LET t == ExtractTextFromFile(oracle, Filename(sentences[r]), sentences[r].ext)
       IN  /\ text' = [text EXCEPT ![r] = <<t>>]
           /\ defects' = [defects EXCEPT ![r] =
                             IF ml_available
                             THEN SimpleDetectTable[t, classifier # "None", answer]
                             ELSE FallbackTable[t]]
    /\ pc' = [pc EXCEPT ![r] = "analyzed"]
    /\ UNCHANGED <<ml_available, classifier, oracle, sentences, idx, ml_results,
                   rule_results, combined_results, returns>>

\* open(file_path, 'rb') for the hash; a missing file raises, and the handler
\* ends in `except Exception`
Hash(r) ==
    /\ pc[r] = "analyzed"
    /\ IF Filename(sentences[r]) \in DOMAIN oracle
       THEN /\ ml_results' = [ml_results EXCEPT ![r] = <<oracle[Filename(sentences[r])]>>]
            /\ pc' = [pc EXCEPT ![r] = "hashed"]
       ELSE /\ pc' = [pc EXCEPT ![r] = "failed"]
            /\ UNCHANGED ml_results
    /\ UNCHANGED <<ml_available, classifier, oracle, text, sentences, idx,
                   rule_results, combined_results, defects, returns>>

\* the INSERT into analysis, the INSERTs into defects, commit
Store(r) ==
    /\ pc[r] = "hashed"
    /\ LET analysis_id == Len(rule_results) + 1
       IN  /\ rule_results' = Append(rule_results,
                                  [id           |-> analysis_id,
                                   filename     |-> Filename(sentences[r]),
                                   file_type    |-> sentences[r].ext,
                                   defect_count |-> Len(defects[r]),
                                   file_hash    |-> ml_results[r][1]])
           /\ combined_results' = combined_results \o
                  [i \in 1..Len(defects[r]) |-> DefectRow(analysis_id, defects[r][i])]
           /\ returns' = [returns EXCEPT ![r] = <<analysis_id>>]
    /\ pc' = [pc EXCEPT ![r] = "stored"]
    /\ UNCHANGED <<ml_available, classifier, oracle, text, sentences, idx,
                   ml_results, defects>>

\* os.remove(file_path); a missing file raises, and the handler ends in
\* `except Exception` with the rows already committed
Remove(r) ==
    /\ pc[r] = "stored"
    /\ IF Filename(sentences[r]) \in DOMAIN oracle
       THEN /\ oracle' = [n \in DOMAIN oracle \ {Filename(sentences[r])} |-> oracle[n]]
            /\ pc' = [pc EXCEPT ![r] = "done"]
       ELSE /\ pc' = [pc EXCEPT ![r] = "failed"]
            /\ UNCHANGED oracle
    /\ UNCHANGED <<ml_available, classifier, text, sentences, idx, ml_results,
                   rule_results, combined_results, defects, returns>>

NextUpload ==
    \/ \E r \in Requests : Save(r)
    \/ \E r \in Requests, answer \in ClassifierOutcomes : Analyze(r, answer)
    \/ \E r \in Requests : Hash(r)
    \/ \E r \in Requests : Store(r)
    \/ \E r \in Requests : Remove(r)

SpecUpload == InitUpload /\ [][NextUpload]_vars

\* the rows of the defects table that belong to the analysis of request r
StoredRows(r) ==
    SelectSeq(combined_results, LAMBDA row : row.analysis_id = returns[r][1])

\* request r has no text to analyse: no extractor for its type, or a body
\* the extractor cannot read
ExtractionFails(r) ==
    sentences[r].ext = "doc" \/ (sentences[r].ext = "docx" /\ ~sentences[r].body.readable)

\* C27 as the spec states it: when text extraction fails or the allowed file
\* type has no extractor, no defect rows are stored for that upload.
C27_Original ==
    \A r \in Requests :
        (returns[r] # <<>> /\ ExtractionFails(r)) => StoredRows(r) = <<>>


\* the detection method the detector assigned to a finding: the detector of
\* ml_defect_detector_simple.py writes it under detection_method, the
\* fallback of app_railway.py under method
AssignedMethod(defect) ==
    IF "detection_method" \in DOMAIN defect THEN defect.detection_method
    ELSE defect.method

\* C29 as the spec states it: the detection_method stored in each defects row
\* equals the detection method the detector assigned to that finding,
\* whichever detector produced it.
C29_Original ==
    \A r \in Requests :
        returns[r] # <<>> =>
            /\ Len(StoredRows(r)) = Len(defects[r])
            /\ \A i \in 1..Len(defects[r]) :
                   StoredRows(r)[i].detection_method = AssignedMethod(defects[r][i])

\* what the extractor gives for the file request r uploaded, alone in the folder
OwnText(r) ==
    ExtractTextFromFile([n \in {Filename(sentences[r])} |-> sentences[r].body],
                        Filename(sentences[r]), sentences[r].ext)

\* C30 as the spec states it: for any interleaving of two upload requests,
\* each request's findings are computed from the content of its own file,
\* and neither request fails because the other one overwrote or removed the
\* saved file.
C30_Original ==
    \A r \in Requests :
        /\ pc[r] # "failed"
        /\ text[r] # <<>> => text[r] = <<OwnText(r)>>


-----------------------------------------------------------------------------
(* app_fixed.py: process_document and delete_analysis on one database *)

\* In this specification rule_results is the analysis table, combined_results
\* the defects table, idx the id AUTOINCREMENT gives the next analysis row,
\* ml_available whether ml_detector is set, classifier the pipeline inside
\* it, pc the outcome of the last request, oracle the id the last
\* delete_analysis was called with, text and defects the text and findings
\* of the last process_document, returns the analysis ids returned so far.
fixed_defect_patterns == <<
    [type |-> "Cracks", patterns |-> <<
        Lit("crack") \o Opt({"s"}), Lit("fissure") \o Opt({"s"}),
        Lit("split") \o Opt({"s"}), Lit("fracture") \o Opt({"s"}) >>],
    [type |-> "Damp", patterns |-> <<
        Lit("damp") \o Opt({"n","e","s"}), Lit("moist") \o Opt({"u","r","e"}),
        Lit("wet") \o Opt({"n","e","s"}), Lit("humid") \o Opt({"i","t","y"}) >>],
    [type |-> "Corrosion", patterns |-> <<
        Lit("rust") \o Opt({"i","n","g"}),
        Lit("corros") \o Cls({"i","o","n","|","v","e"}),
        Lit("oxid") \o Cls({"a","t","i","o","n","|","z","e","d"}) >>],
    [type |-> "Mold", patterns |-> <<
        Lit("mold"), Lit("mould"), Lit("fungus"), Lit("mildew") >>],
    [type |-> "Structural", patterns |-> <<
        Lit("structural"), Lit("foundation"), Lit("beam"), Lit("support") >>],
    [type |-> "Electrical", patterns |-> <<
        Lit("electrical"), Lit("wiring"), Lit("circuit"), Lit("panel") >>],
    [type |-> "Plumbing", patterns |-> <<
        Lit("plumbing"), Lit("pipe"), Lit("leak"), Lit("drain") >>] >>

FixedSentenceMinLen == 10
FixedTextMinLen == 50

\* re.search(pattern, sentence, re.IGNORECASE) for each category, with the
\* break at the first pattern that matches
RECURSIVE FixedCategories(_, _)
FixedCategories(sentence, c) ==
    IF c > Len(fixed_defect_patterns) THEN <<>>
    ELSE LET entry == fixed_defect_patterns[c]
         IN  (IF FirstHit(entry.patterns, Lower(sentence), 1) = 0 THEN <<>>
              ELSE <<[type             |-> entry.type,
                      sentence         |-> sentence,
                      confidence       |-> Pct(70),
                      severity         |-> "Medium",
                      detection_method |-> "rule_based_fallback"]>>)
                 \o FixedCategories(sentence, c + 1)

RECURSIVE FixedFallbackFrom(_, _)
FixedFallbackFrom(pieces, n) ==
    IF n > Len(pieces) THEN <<>>
    ELSE LET sentence == Strip(pieces[n])
         IN  (IF Len(sentence) < FixedSentenceMinLen THEN <<>>
              ELSE FixedCategories(sentence, 1))
                 \o FixedFallbackFrom(pieces, n + 1)

FixedDetectDefectsFallback(t) == FixedFallbackFrom(SplitDot(t), 1)

FixedFallbackTable ==
    [t \in UploadContents |-> FixedDetectDefectsFallback(t)]

\* the documents uploaded: the extension of the name, and the text the
\* extractor reads from the file ("" when it cannot read it)
Documents ==
    [ext : {"pdf", "docx", "txt"},
     text : UploadContents \cup {"", "Cracks in the wall."}]

InitFixed ==
    /\ ml_available \in BOOLEAN
    /\ classifier \in (IF ml_available THEN {"pipeline", "None"} ELSE {"None"})
    /\ rule_results = <<>>
    /\ combined_results = <<>>
    /\ idx = 1
    /\ pc = "started"
    /\ oracle = 0
    /\ text = <<>>
    /\ defects = <<>>
    /\ returns = <<>>
    /\ sentences = <<>>
    /\ ml_results = <<>>

\* the row process_document inserts for a finding
FixedDefectRow(analysis_id, defect, processing_method) ==
    [analysis_id      |-> analysis_id,
     defect_type      |-> defect.type,
     severity         |-> IF "severity" \in DOMAIN defect THEN defect.severity ELSE "Medium",
     confidence       |-> IF "confidence" \in DOMAIN defect THEN defect.confidence ELSE Pct(70),
     sentence         |-> defect.sentence,
     detection_method |-> IF "detection_method" \in DOMAIN defect
                          THEN defect.detection_method ELSE processing_method]

\* process_document(file_path, filename)
ProcessDocument(doc, answer) ==
    /\ Len(returns) < MaxCalls
    /\ oracle' = 0
    /\ IF doc.ext \notin {"pdf", "docx"}
       THEN /\ pc' = "unsupported"
            /\ UNCHANGED <<text, defects, rule_results, combined_results, idx, returns>>
       ELSE IF Len(Strip(doc.text)) < FixedTextMinLen
       THEN /\ pc' = "no_text"
            /\ text' = <<doc.text>>
            /\ UNCHANGED <<defects, rule_results, combined_results, idx, returns>>
       ELSE LET found == IF ml_available
                         THEN SimpleDetectTable[doc.text, classifier # "None", answer]
                         ELSE FixedFallbackTable[doc.text]
                processing_method == IF ml_available THEN "hybrid_ml"
                                     ELSE "rule_based_fallback"
            IN  /\ pc' = "stored"
                /\ text' = <<doc.text>>
                /\ defects' = found
                /\ rule_results' = Append(rule_results,
                                       [id                |-> idx,
                                        file_type         |-> IF doc.ext = "pdf" THEN "PDF" ELSE "DOCX",
                                        total_defects     |-> Len(found),
                                        processing_method |-> processing_method])
                /\ combined_results' = combined_results \o
                       [i \in 1..Len(found) |-> FixedDefectRow(idx, found[i], processing_method)]
                /\ idx' = idx + 1
                /\ returns' = Append(returns, idx)
    /\ UNCHANGED <<ml_available, classifier, sentences, ml_results>>

\* delete_analysis with only the analysis row deleted
DeleteAnalysis_AnalysisOnly(analysis_id) ==
    /\ oracle' = analysis_id
    /\ IF \A i \in 1..Len(rule_results) : rule_results[i].id # analysis_id
       THEN /\ pc' = "not_found"
            /\ UNCHANGED <<rule_results, combined_results>>
       ELSE /\ pc' = "deleted"
            /\ rule_results' = SelectSeq(rule_results, LAMBDA row : row.id # analysis_id)
            /\ UNCHANGED combined_results
    /\ UNCHANGED <<ml_available, classifier, text, sentences, idx, ml_results,
                   defects, returns>>

\* delete_analysis(analysis_id)
DeleteAnalysis(analysis_id) ==
    /\ oracle' = analysis_id
    /\ IF \A i \in 1..Len(rule_results) : rule_results[i].id # analysis_id
       THEN /\ pc' = "not_found"
            /\ UNCHANGED <<rule_results, combined_results>>
       ELSE /\ pc' = "deleted"
            /\ combined_results' = SelectSeq(combined_results,
                                       LAMBDA row : row.analysis_id # analysis_id)
            /\ rule_results' = SelectSeq(rule_results, LAMBDA row : row.id # analysis_id)
    /\ UNCHANGED <<ml_available, classifier, text, sentences, idx, ml_results,
                   defects, returns>>

NextFixed ==
    \/ \E doc \in Documents, answer \in ClassifierOutcomes : ProcessDocument(doc, answer)
    \/ \E analysis_id \in 1..(MaxCalls + 1) : DeleteAnalysis(analysis_id)

SpecFixed == InitFixed /\ [][NextFixed]_vars

\* the ids of the analysis table
AnalysisIds == {rule_results[i].id : i \in 1..Len(rule_results)}

\* the defects rows that reference analysis id a
RowsOf(a) == SelectSeq(combined_results, LAMBDA row : row.analysis_id = a)

TablesConsistent ==
    /\ \A i \in 1..Len(combined_results) : combined_results[i].analysis_id \in AnalysisIds
    /\ \A i \in 1..Len(rule_results) :
           rule_results[i].total_defects = Len(RowsOf(rule_results[i].id))

\* C28: after any sequence of process_document and delete_analysis calls,
\* every defects row references an existing analysis row, each analysis
\* row's total_defects is the number of defects rows that reference it, and
\* a delete_analysis of an id that is not in the analysis table leaves both
\* tables as they were.
C28_TablesConsistent ==
    /\ []TablesConsistent
    /\ [][ (pc' \in {"deleted", "not_found"} /\ oracle' \notin AnalysisIds)
              => (rule_results' = rule_results /\ combined_results' = combined_results) ]_vars

\* two documents stored, one of them deleted, then an unknown id deleted,
\* with defects rows of the other document still there
C28_Witness ==
    /\ pc = "not_found"
    /\ Len(returns) = 2
    /\ Len(rule_results) = 1
    /\ combined_results # <<>>

====
